---- MODULE Spec2Model ----
(***************************************************************************)
(* Model of the test-helper library: the URL classifier LinkType and the   *)
(* mail-key selection getWorkingMailSlurp of src/helpers/helpers.ts, the   *)
(* response listener verifyResponses and the locator-composing methods of  *)
(* src/helpers/pageClass.ts.                                               *)
(*                                                                         *)
(* Strings are TLA+ strings; TLC evaluates Len, \o and SubSeq on them, so  *)
(* a regular expression is matched character by character.                 *)
(***************************************************************************)
EXTENDS Integers, Sequences, FiniteSets, TLC

VARIABLES
    url,        \* LinkType: the url argument of the call
    page,       \* LinkType: the page argument of the call
    tag,        \* LinkType: the value returned, NoTag before the call returns
    pageUrl,    \* pageClass: this.page.url(), the url the page is on now
    listeners,  \* pageClass: number of "response" listeners installed on the page
    request,    \* the request in flight: [url, sentOn], sentOn the url the page was on
                \* when it was sent; NoRequest when none is
    response,   \* the response event fired last: [url, status, sentOn], NoResponse before
    checks,     \* what each listener did with that response: <<[url, page, tag, outcome]>>
    method,     \* pageClass: the locator-composing method called, NoMethod before
    options,    \* the options object the method was called with
    locator,    \* the method's local `locator`: the chain of calls that built it
    baseUsed,   \* the method's local `baseUsed`
    outcome,    \* "idle", "called", "threw", "awaiting" (action issued), "acted"
    dom,        \* the elements of the page, in document order
    acted,      \* the framework action: the key of the element it ran on, the page it
                \* resolved the locator among, the page the locator was built on
    lastIndex,  \* helpers.ts: the lastIndex property of each RegExp object
    returned,   \* the calls of LinkType that returned so far: <<[url, page, tag]>>
    env,        \* process.env.MAILSLURP_API_KEYS
    keysToTry,  \* getWorkingMailSlurp: the local keysToTry
    tried,      \* the createInbox calls made so far: <<[key, from, ok]>>
    mailResult, \* getWorkingMailSlurp: [status, apiKey, inbox, from] with status "idle",
                \* "running", "returned" ({ mailslurp, inbox }) or "threw"
                \* and from the list keysToTry was taken from ("env" or "apiKeys")
    navigation, \* verifyStatusAndSecurityHeaders: what this.page.goto(...) gives
    verified    \* verifyStatusAndSecurityHeaders: [status, monitoringId, logged] with
                \* status "idle", "called", "resolved" or "rejected"

classifierVars == <<url, page, tag>>
listenerVars == <<pageUrl, listeners, request, response, checks>>
locatorVars == <<method, options, locator, baseUsed, outcome, dom, acted>>
regexVars == <<lastIndex, returned>>
mailVars == <<env, keysToTry, tried, mailResult>>
securityVars == <<navigation, verified>>
vars == <<classifierVars, listenerVars, locatorVars, regexVars, mailVars, securityVars>>

-----------------------------------------------------------------------------
(* Characters and strings                                                  *)

Ch(s, i) == SubSeq(s, i, i)

LowerCase == <<"a","b","c","d","e","f","g","h","i","j","k","l","m",
               "n","o","p","q","r","s","t","u","v","w","x","y","z">>
UpperCase == <<"A","B","C","D","E","F","G","H","I","J","K","L","M",
               "N","O","P","Q","R","S","T","U","V","W","X","Y","Z">>
Digits == {"0","1","2","3","4","5","6","7","8","9"}
Range(f) == {f[i] : i \in DOMAIN f}

\* \w and \d of an ECMAScript regular expression (no unicode flag)
WordChars == Range(LowerCase) \cup Range(UpperCase) \cup Digits \cup {"_"}
DigitChars == Digits
\* the characters . does not match
LineTerminators == {"\n", "\r"}

\* Canonicalize of the ECMAScript specification, used under the i flag: the
\* character's upper case
CanonCh(c) ==
    IF \E k \in DOMAIN LowerCase : LowerCase[k] = c
    THEN UpperCase[CHOOSE k \in DOMAIN LowerCase : LowerCase[k] = c]
    ELSE c

\* the string with every character canonicalized (halved, to keep the
\* recursion shallow)
RECURSIVE Canonicalize(_)
Canonicalize(s) ==
    IF Len(s) = 0 THEN s
    ELSE IF Len(s) = 1 THEN CanonCh(s)
    ELSE LET h == Len(s) \div 2
         IN  Canonicalize(SubSeq(s, 1, h)) \o Canonicalize(SubSeq(s, h + 1, Len(s)))

-----------------------------------------------------------------------------
(* Regular expressions: the syntax tree of a RegExp literal, and            *)
(* RegExp.prototype.test on it.  A position is the number of characters    *)
(* already consumed; Ends is the set of positions a match of r can end at  *)
(* when it starts at one of the positions of I.                            *)

Lit(s)   == [t |-> "lit", s |-> s]
Cls(S)   == [t |-> "cls", c |-> S]
Dot      == [t |-> "dot"]
Cat(rs)  == [t |-> "cat", rs |-> rs]
Alt(rs)  == [t |-> "alt", rs |-> rs]
Star(r)  == [t |-> "star", r |-> r]
Plus(r)  == [t |-> "plus", r |-> r]
Opt(r)   == [t |-> "opt", r |-> r]
Bol      == [t |-> "bol"]
Eol      == [t |-> "eol"]

\* a term that consumes exactly one character, and whether it accepts c
OneChar(r) == r.t \in {"cls", "dot"}
Accepts(r, c, ic) ==
    IF r.t = "dot" THEN c \notin LineTerminators
    ELSE c \in (IF ic THEN {CanonCh(x) : x \in r.c} ELSE r.c)

\* r* for a one-character term r: j is reached from i <= j when r accepts every
\* character between them
Run(r, s, I, ic) ==
    LET Rejected == {k \in 1 .. Len(s) : ~Accepts(r, Ch(s, k), ic)}
    IN  {j \in 0 .. Len(s) : \E i \in I : i <= j /\ \A k \in Rejected : k <= i \/ k > j}

RECURSIVE Ends(_, _, _, _), CatEnds(_, _, _, _, _), Closure(_, _, _, _, _)

Ends(r, s, I, ic) ==
    CASE r.t = "lit" ->
           LET w == IF ic THEN Canonicalize(r.s) ELSE r.s
           IN  {i + Len(w) : i \in {j \in I : /\ j + Len(w) <= Len(s)
                                              /\ SubSeq(s, j + 1, j + Len(w)) = w}}
      [] OneChar(r) ->
           {i + 1 : i \in {j \in I : j < Len(s) /\ Accepts(r, Ch(s, j + 1), ic)}}
      [] r.t = "cat"  -> CatEnds(r.rs, 1, s, I, ic)
      [] r.t = "alt"  -> UNION {Ends(r.rs[k], s, I, ic) : k \in DOMAIN r.rs}
      [] r.t = "star" -> IF OneChar(r.r) THEN Run(r.r, s, I, ic)
                         ELSE Closure(r.r, s, I, I, ic)
      [] r.t = "plus" -> LET J == Ends(r.r, s, I, ic)
                         IN  IF OneChar(r.r) THEN Run(r.r, s, J, ic)
                             ELSE Closure(r.r, s, J, J, ic)
      [] r.t = "opt"  -> I \cup Ends(r.r, s, I, ic)
      [] r.t = "bol"  -> I \cap {0}
      [] r.t = "eol"  -> I \cap {Len(s)}

CatEnds(rs, k, s, I, ic) ==
    IF k > Len(rs) \/ I = {} THEN I
    ELSE CatEnds(rs, k + 1, s, Ends(rs[k], s, I, ic), ic)

\* the positions reached by repeating r from the frontier F; Acc are those found
Closure(r, s, F, Acc, ic) ==
    LET N == Ends(r, s, F, ic) \ Acc
    IN  IF N = {} THEN Acc ELSE Closure(r, s, N, Acc \cup N, ic)

\* a RegExp literal /re/flags
HasFlag(flags, c) == \E k \in 1 .. Len(flags) : Ch(flags, k) = c
RegExp_Global(re, flags) ==
    [re |-> re, ignoreCase |-> HasFlag(flags, "i"), global |-> TRUE]

RegExp(re, flags) ==
    [re |-> re, ignoreCase |-> HasFlag(flags, "i"), global |-> HasFlag(flags, "g")]

\* pattern.test(s) for a pattern without the g and y flags: a match may start
\* anywhere; under the i flag both sides are compared canonicalized

Test(pattern, s) ==
    LET in == IF pattern.ignoreCase THEN Canonicalize(s) ELSE s
    IN  Ends(pattern.re, in, 0 .. Len(in), pattern.ignoreCase) # {}

\* patterns.some((pattern) => pattern.test(s))
Some(patterns, s) == \E k \in DOMAIN patterns : Test(patterns[k], s)

-----------------------------------------------------------------------------
(* helpers.ts: the pattern tables                                          *)

MediaExtensions == <<"mp4", "webm", "ogg", "mp3", "wav", "m4a", "flac", "aac">>

Lits(ws) == [k \in DOMAIN ws |-> Lit(ws[k])]

\* the media pattern without the optional query string
videoPattern_NoQuery ==
    RegExp(Cat(<<Lit("http"), Opt(Lit("s")), Lit("://"), Star(Dot), Lit("."),
                 Alt(Lits(MediaExtensions)), Eol>>), "")

\* /https?:\/\/.*\.(mp4|webm|ogg|mp3|wav|m4a|flac|aac)(\?.*)?$/
videoPattern ==
    RegExp(Cat(<<Lit("http"), Opt(Lit("s")), Lit("://"), Star(Dot), Lit("."),
                 Alt(Lits(MediaExtensions)),
                 Opt(Cat(<<Lit("?"), Star(Dot)>>)), Eol>>), "")

\* the analytics patterns with the i flag left out
gaPatterns_CaseSensitive ==
    << RegExp(Cat(<<Bol, Opt(Cat(<<Lit("http"), Opt(Lit("s")), Lit("://")>>)),
                    Opt(Lit("www.")),
                    Alt(<<Lit("analytics.google.com"), Lit("www.google-analytics.com")>>),
                    Opt(Cat(<<Lit("/"), Star(Dot)>>)), Eol>>), ""),
       RegExp(Lit("https://googleads.g.doubleclick.net/pagead/id"), "") >>

\* /^(https?:\/\/)?(www\.)?(analytics\.google\.com|www\.google-analytics\.com)(\/.*)?$/i
\* /https:\/\/googleads\.g\.doubleclick\.net\/pagead\/id/
gaPatterns ==
    << RegExp(Cat(<<Bol, Opt(Cat(<<Lit("http"), Opt(Lit("s")), Lit("://")>>)),
                    Opt(Lit("www.")),
                    Alt(<<Lit("analytics.google.com"), Lit("www.google-analytics.com")>>),
                    Opt(Cat(<<Lit("/"), Star(Dot)>>)), Eol>>), "i"),
       RegExp(Lit("https://googleads.g.doubleclick.net/pagead/id"), "") >>

\* the YouTube patterns with the host www.youtube.com required
youtubePatterns_WwwOnly ==
    << RegExp(Cat(<<Lit("https://www.youtube.com/"),
                    Alt(<<Lit("watch?v="), Lit("embed/"),
                          Cat(<<Lit("api/stats/"),
                                Alt(Lits(<<"playback", "atr", "qoe", "ptracking", "watchtime">>)),
                                Lit("?")>>),
                          Lit("ptracking?"), Lit("v/"), Lit("c/"), Lit("user/"),
                          Lit("channel/"), Lit("playlist?list="), Lit("shorts/"),
                          Lit("results?search_query=")>>),
                    Plus(Cls(WordChars \cup {"-"})),
                    Star(Cat(<<Lit("&"), Star(Cls(WordChars \cup {"="}))>>))>>), ""),
       RegExp(Cat(<<Lit("https://www.youtube.com/generate_204?"), Star(Dot)>>), "") >>

\* /https:\/\/(www\.)?youtube\.com\/(watch\?v=|embed\/|api\/stats\/(playback|atr|qoe|
\*   ptracking|watchtime)\?|ptracking\?|v\/|c\/|user\/|channel\/|playlist\?list=|shorts\/|
\*   results\?search_query=)[\w-]+(&[\w=]*)*/
\* /https:\/\/www\.youtube\.com\/generate_204\?.*/
youtubePatterns ==
    << RegExp(Cat(<<Lit("https://"), Opt(Lit("www.")), Lit("youtube.com/"),
                    Alt(<<Lit("watch?v="), Lit("embed/"),
                          Cat(<<Lit("api/stats/"),
                                Alt(Lits(<<"playback", "atr", "qoe", "ptracking", "watchtime">>)),
                                Lit("?")>>),
                          Lit("ptracking?"), Lit("v/"), Lit("c/"), Lit("user/"),
                          Lit("channel/"), Lit("playlist?list="), Lit("shorts/"),
                          Lit("results?search_query=")>>),
                    Plus(Cls(WordChars \cup {"-"})),
                    Star(Cat(<<Lit("&"), Star(Cls(WordChars \cup {"="}))>>))>>), ""),
       RegExp(Cat(<<Lit("https://www.youtube.com/generate_204?"), Star(Dot)>>), "") >>

\* the recaptcha patterns without the general one
recaptchaPatterns_SubPathsOnly ==
    << RegExp(Cat(<<Lit("https://www.google.com/recaptcha/api2/"), Star(Dot)>>), ""),
       RegExp(Cat(<<Lit("https://www.google.com/recaptcha/enterprise/"), Star(Dot)>>), "") >>

\* /https:\/\/www\.google\.com\/recaptcha\/.*/
\* /https:\/\/www\.google\.com\/recaptcha\/api2\/.*/
\* /https:\/\/www\.google\.com\/recaptcha\/enterprise\/.*/
recaptchaPatterns ==
    << RegExp(Cat(<<Lit("https://www.google.com/recaptcha/"), Star(Dot)>>), ""),
       RegExp(Cat(<<Lit("https://www.google.com/recaptcha/api2/"), Star(Dot)>>), ""),
       RegExp(Cat(<<Lit("https://www.google.com/recaptcha/enterprise/"), Star(Dot)>>), "") >>

\* the beacon pattern cut before its last parameter
exceptPattern_NoTagExp ==
    LET d == Plus(Cls(DigitChars))
        w == Plus(Cls(WordChars \cup DigitChars))
    IN  RegExp(Cat(<<Lit("https://stats.g.doubleclick.net/g/collect?v="), d,
                     Lit("&tid=G-"), w, Lit("&cid="), d, Lit("."), d,
                     Lit("&gtm="), w, Lit("&aip="), d, Lit("&dma="), d,
                     Lit("&gcd="), w, Lit("&npa="), d, Lit("&frm="), d>>), "")

\* /https:\/\/stats\.g\.doubleclick\.net\/g\/collect\?v=\d+&tid=G-[\w\d]+&cid=\d+\.\d+
\*   &gtm=[\w\d]+&aip=\d+&dma=\d+&gcd=[\w\d]+&npa=\d+&frm=\d+&tag_exp=\d+/
exceptPattern ==
    LET d == Plus(Cls(DigitChars))
        w == Plus(Cls(WordChars \cup DigitChars))
    IN  RegExp(Cat(<<Lit("https://stats.g.doubleclick.net/g/collect?v="), d,
                     Lit("&tid=G-"), w, Lit("&cid="), d, Lit("."), d,
                     Lit("&gtm="), w, Lit("&aip="), d, Lit("&dma="), d,
                     Lit("&gcd="), w, Lit("&npa="), d, Lit("&frm="), d,
                     Lit("&tag_exp="), d>>), "")

\* ./routes: the base site url and the path of the financial-results page
main == "https://site.example/"
financial_results == "financial-results"

exceptUrls ==
    << "https://consentcdn.cookiebot.com/consentconfig/7f599eef-471b-4c16-a0c6-40061801485c/localhost/configuration.js",
       main \o "api/subscribe",
       "https://www.carlyle.com/cdn-cgi/challenge-platform/scripts/jsd/main.js" >>
\* the page list without the route appended to the base url
exceptPages_BaseOnly == << main >>
exceptPages == << main \o financial_results >>

-----------------------------------------------------------------------------
(* helpers.ts: LinkType                                                    *)

\* a classifier without the final return: the call yields undefined
LinkType_NoDefault(u, p) ==
    IF Test(videoPattern, u) THEN "Video"
    ELSE IF Some(gaPatterns, u) THEN "GA"
    ELSE IF Some(youtubePatterns, u) THEN "YT"
    ELSE IF Some(recaptchaPatterns, u) THEN "Ignore"
    ELSE IF Test(exceptPattern, u) THEN "Exception"
    ELSE IF \/ \E k \in DOMAIN exceptUrls : exceptUrls[k] = u
            \/ \E k \in DOMAIN exceptPages : exceptPages[k] = p
         THEN "Ignore"
    ELSE "undefined"

\* a classifier whose literal rule accepts every url that starts with a literal
LinkType_LiteralPrefix(u, p) ==
    IF Test(videoPattern, u) THEN "Video"
    ELSE IF Some(gaPatterns, u) THEN "GA"
    ELSE IF Some(youtubePatterns, u) THEN "YT"
    ELSE IF Some(recaptchaPatterns, u) THEN "Ignore"
    ELSE IF Test(exceptPattern, u) THEN "Exception"
    ELSE IF \/ \E k \in DOMAIN exceptUrls :
                 /\ Len(exceptUrls[k]) <= Len(u)
                 /\ SubSeq(u, 1, Len(exceptUrls[k])) = exceptUrls[k]
            \/ \E k \in DOMAIN exceptPages : exceptPages[k] = p
         THEN "Ignore"
    ELSE "NONE"

\* a classifier that tests the literal/page rule before the patterns
LinkType_IgnoreFirst(u, p) ==
    IF \/ \E k \in DOMAIN exceptUrls : exceptUrls[k] = u
       \/ \E k \in DOMAIN exceptPages : exceptPages[k] = p
    THEN "Ignore"
    ELSE IF Test(videoPattern, u) THEN "Video"
    ELSE IF Some(gaPatterns, u) THEN "GA"
    ELSE IF Some(youtubePatterns, u) THEN "YT"
    ELSE IF Some(recaptchaPatterns, u) THEN "Ignore"
    ELSE IF Test(exceptPattern, u) THEN "Exception"
    ELSE "NONE"

LinkType(u, p) ==
    IF Test(videoPattern, u) THEN "Video"
    ELSE IF Some(gaPatterns, u) THEN "GA"
    ELSE IF Some(youtubePatterns, u) THEN "YT"
    ELSE IF Some(recaptchaPatterns, u) THEN "Ignore"
    ELSE IF Test(exceptPattern, u) THEN "Exception"
    ELSE IF \/ \E k \in DOMAIN exceptUrls : exceptUrls[k] = u
            \/ \E k \in DOMAIN exceptPages : exceptPages[k] = p
         THEN "Ignore"
    ELSE "NONE"

-----------------------------------------------------------------------------
(* pageClass.ts: verifyResponses, the "response" listener                  *)

\* expect(cond, message).toBeTruthy()
Expect(cond) == IF cond THEN "pass" ELSE "fail"

\* the switch with the upper end of the redirect range included
Verdict_RangeClosed(t, st) ==
    CASE t = "Video"     -> Expect(st = 200 \/ st = 204 \/ st = 206 \/ st = 304)
      [] t = "GA"        -> Expect(st = 200 \/ st = 204 \/ st = 302 \/ st = 304)
      [] t = "YT"        -> Expect(st = 200 \/ st = 204)
      [] t = "Exception" -> "none"
      [] t = "Ignore"    -> "none"
      [] OTHER           -> Expect(st = 200 \/ st = 204 \/ st = 206 \/ (st >= 300 /\ st <= 400))

\* the switch of the listener on the tag t of a response with status st;
\* "none": the case returns without an assertion
Verdict(t, st) ==
    CASE t = "Video"     -> Expect(st = 200 \/ st = 204 \/ st = 206 \/ st = 304)
      [] t = "GA"        -> Expect(st = 200 \/ st = 204 \/ st = 302 \/ st = 304)
      [] t = "YT"        -> Expect(st = 200 \/ st = 204)
      [] t = "Exception" -> "none"
      [] t = "Ignore"    -> "none"
      [] OTHER           -> Expect(st = 200 \/ st = 204 \/ st = 206 \/ (st >= 300 /\ st < 400))

\* one run of the callback (response) => { switch (LinkType(response.url(), this.page.url())) ... }
\* with the tag t that call returned
Callback(u, st, p, t) ==
    [url |-> u, page |-> p, tag |-> t, outcome |-> Verdict(t, st)]

-----------------------------------------------------------------------------
(* Inputs                                                                  *)

FinancialPage == main \o financial_results
Pages == {main, FinancialPage, "https://example.com/", ""}

RECURSIVE Join(_, _)
Join(ps, sep) ==
    IF Len(ps) = 0 THEN ""
    ELSE IF Len(ps) = 1 THEN ps[1]
    ELSE ps[1] \o sep \o Join(Tail(ps), sep)

BeaconBase == "https://stats.g.doubleclick.net/g/collect?"
BeaconParams == <<"v=1", "tid=G-ABC123", "cid=1.2", "gtm=xyz", "aip=1",
                  "dma=1", "gcd=1", "npa=1", "frm=1", "tag_exp=1">>
Beacon(ps) == BeaconBase \o Join(ps, "&")
Swap(ps, i, j) ==
    [k \in DOMAIN ps |-> IF k = i THEN ps[j] ELSE IF k = j THEN ps[i] ELSE ps[k]]
Omit(ps, i) == SubSeq(ps, 1, i - 1) \o SubSeq(ps, i + 1, Len(ps))

CanonicalBeacon == Beacon(BeaconParams)
BeaconReordered ==
    {Beacon(Swap(BeaconParams, ij[1], ij[2])) :
        ij \in {ij \in (DOMAIN BeaconParams) \X (DOMAIN BeaconParams) : ij[1] < ij[2]}}
BeaconOmitted == {Beacon(Omit(BeaconParams, i)) : i \in DOMAIN BeaconParams}

YouTubeHeads ==
    {"watch?v=", "embed/", "api/stats/playback?", "api/stats/atr?", "api/stats/qoe?",
     "api/stats/ptracking?", "api/stats/watchtime?", "ptracking?", "v/", "c/", "user/",
     "channel/", "playlist?list=", "shorts/", "results?search_query="}

MediaUrls ==
    {"https://cdn.example.com/media/clip." \o MediaExtensions[k] \o q :
        k \in DOMAIN MediaExtensions, q \in {"", "?t=10&q=hd"}}
    \cup {"http://cdn.example.com/a.mp4", "http://.ogg", "https://site.example/play?file=clip.mp4"}
NearMediaUrls ==
    {"https://cdn.example.com/media/clip.mp4x", "https://cdn.example.com/media/clip.avi",
     "https://cdn.example.com/media/clip.MP4", "https://cdn.example.com/media/clip.mp4#t=10",
     "ftp://cdn.example.com/media/clip.mp4", "https://cdn.example.com/media/clipmp4",
     "//cdn.example.com/media/clip.mp4"}
AnalyticsUrls ==
    {"https://analytics.google.com/g/collect?v=2", "https://www.google-analytics.com/analytics.js",
     "http://www.google-analytics.com", "https://Analytics.Google.COM/", "analytics.google.com",
     "HTTPS://WWW.ANALYTICS.GOOGLE.COM/x", "https://www.google-analytics.com/promo.mp4",
     "https://analytics.google.com/v?f=a.webm",
     "https://googleads.g.doubleclick.net/pagead/id",
     "https://googleads.g.doubleclick.net/pagead/id?slf_rd=1",
     "https://googleads.g.doubleclick.net/pagead/id?f=a.mp3",
     "https://site.example/r?to=https://googleads.g.doubleclick.net/pagead/id"}
NearAnalyticsUrls ==
    {"https://site.example/?ref=https://analytics.google.com/",
     "https://analytics.google.com.example.com/", "https://analytics.google.com?x=1",
     "https://analytics.google.com:443/", "https://google-analytics.com/collect",
     "http://googleads.g.doubleclick.net/pagead/id",
     "https://googleads.g.doubleclick.net/pagead/ads"}
YouTubeUrls ==
    {"https://www.youtube.com/" \o h \o "dQw4-w9_WgX" \o q :
        h \in YouTubeHeads, q \in {"", "&t=10&list=PL1"}}
    \cup {"https://youtube.com/watch?v=abc", "https://www.youtube.com/generate_204?cpn=x",
          "https://www.youtube.com/generate_204?",
          "https://www.youtube.com/watch?v=abc&file=x.mp4",
          "https://www.youtube.com/watch?v=a&u=https://googleads.g.doubleclick.net/pagead/id",
          "https://site.example/out?to=https://www.youtube.com/embed/abc"}
NearYouTubeUrls ==
    {"http://www.youtube.com/watch?v=abc", "https://m.youtube.com/watch?v=abc",
     "https://www.youtube.com/embed/", "https://www.youtube.com/watch?v=%41",
     "https://www.youtube.com/generate_204", "https://youtube.com/generate_204?cpn=x",
     "https://www.youtube.com/feed/trending"}
RecaptchaUrls ==
    {"https://www.google.com/recaptcha/", "https://www.google.com/recaptcha/api.js?render=k",
     "https://www.google.com/recaptcha/api2/anchor?k=1",
     "https://www.google.com/recaptcha/enterprise/reload?k=1",
     "https://www.google.com/recaptcha/api2/demo.mp4",
     "https://www.google.com/recaptcha/api2/bframe?u=https://www.youtube.com/embed/abc",
     "https://www.google.com/recaptcha/api2/r?u=https://googleads.g.doubleclick.net/pagead/id",
     "https://www.google.com/recaptcha/api2/r?u=" \o CanonicalBeacon}
NearRecaptchaUrls ==
    {"http://www.google.com/recaptcha/api.js", "https://www.google.com/recaptcha",
     "https://google.com/recaptcha/api.js", "https://www.google.com/search?q=recaptcha"}
BeaconUrls ==
    {CanonicalBeacon, CanonicalBeacon \o "&_z=1", "https://site.example/r?to=" \o CanonicalBeacon,
     Beacon(<<"v=2", "tid=G-X", "cid=11.22", "gtm=45je", "aip=0", "dma=0", "gcd=13l3",
              "npa=0", "frm=0", "tag_exp=101">>)}
NearBeaconUrls ==
    BeaconReordered \cup BeaconOmitted
    \cup {"http" \o SubSeq(CanonicalBeacon, 6, Len(CanonicalBeacon)),
          Beacon(<<"v=1", "tid=UA-1", "cid=1.2", "gtm=xyz", "aip=1", "dma=1", "gcd=1",
                   "npa=1", "frm=1", "tag_exp=1">>)}
LiteralUrls == Range(exceptUrls)
PlainUrls ==
    {"", "https://example.com/api/data", main, FinancialPage, main \o "api/subscribe?x=1",
     main \o "api/subscribed", "https://www.carlyle.com/cdn-cgi/challenge-platform/scripts/jsd/main.js?",
     "https://site.example/about", "about:blank"}

Urls ==
    MediaUrls \cup NearMediaUrls \cup AnalyticsUrls \cup NearAnalyticsUrls \cup YouTubeUrls
    \cup NearYouTubeUrls \cup RecaptchaUrls \cup NearRecaptchaUrls \cup BeaconUrls
    \cup NearBeaconUrls \cup LiteralUrls \cup PlainUrls

\* the responses the listener machine is driven with: a few urls of every tag
ResponseUrls ==
    {"https://cdn.example.com/media/clip.mp4", "https://www.google-analytics.com/analytics.js",
     "https://www.youtube.com/embed/abc", "https://www.google.com/recaptcha/api.js?render=k",
     CanonicalBeacon, main \o "api/subscribe", "https://example.com/api/data"}
Statuses == {199, 200, 204, 206, 299, 300, 302, 304, 399, 400, 404}
\* the pages the browser is sent to
VisitedPages == {main, FinancialPage}

NoTag == "(pending)"
NoRequest == [url |-> "", sentOn |-> ""]
NoResponse == [url |-> "", status |-> 0, sentOn |-> ""]

\* the value of an option, environment variable or property that is not there
Undefined == "(undefined)"
\* options.nth is a number, the string "last", or not there
NthNumber(n) == [kind |-> "number", n |-> n]
NthLast == [kind |-> "last", n |-> 0]
NthAbsent == [kind |-> "undefined", n |-> 0]
\* options.roleName is an object {name, exact} or not there
RoleName(name, exact) == [given |-> TRUE, name |-> name, exact |-> exact]
NoRoleName == [given |-> FALSE, name |-> Undefined, exact |-> Undefined]
\* the options object {}
NoOptions ==
    [testId |-> Undefined, id |-> Undefined, classes |-> Undefined, tag |-> Undefined,
     role |-> Undefined, roleName |-> NoRoleName, text |-> Undefined, nth |-> NthAbsent]
NoMethod == "(none)"
NoBase == "null"
NoElement == [on |-> 0, among |-> <<>>, builtOn |-> <<>>]
\* the nine RegExp objects of the module, in the order LinkType tests them
RegExps == <<videoPattern>> \o gaPatterns \o youtubePatterns \o recaptchaPatterns
           \o <<exceptPattern>>
\* an environment variable: set to a value, or not set
EnvSet(v) == [set |-> TRUE, value |-> v]
EnvUnset == [set |-> FALSE, value |-> ""]
\* getWorkingMailSlurp has not returned: no client, no inbox
NoClient(status) == [status |-> status, apiKey |-> Undefined, inbox |-> 0, from |-> Undefined]

\* no locator-composing method was called
IdleLocator ==
    /\ method = NoMethod
    /\ options = NoOptions
    /\ locator = <<>>
    /\ baseUsed = NoBase
    /\ outcome = "idle"
    /\ dom = <<>>
    /\ acted = NoElement

\* the RegExp objects as the module creates them; LinkType was not called
IdleRegex ==
    /\ lastIndex = [k \in DOMAIN RegExps |-> 0]
    /\ returned = <<>>

\* page.goto(...) resolves with a response or with null, or rejects
Response(status, headers, monitoring) ==
    [kind |-> "response", status |-> status, headers |-> headers, monitoring |-> monitoring]
NoNavigation(kind) ==
    [kind |-> kind, status |-> 0, headers |-> {}, monitoring |-> Undefined]
NotVerified(status, monitoringId) ==
    [status |-> status, monitoringId |-> monitoringId, logged |-> FALSE]

\* verifyStatusAndSecurityHeaders was not called
IdleSecurity ==
    /\ navigation = NoNavigation("none")
    /\ verified = NotVerified("idle", Undefined)

\* getWorkingMailSlurp was not called
IdleMail ==
    /\ env = EnvUnset
    /\ keysToTry = <<>>
    /\ tried = <<>>
    /\ mailResult = NoClient("idle")

-----------------------------------------------------------------------------
(* The classifier as a call: the arguments are drawn first, then the call  *)
(* returns.                                                                *)

IdleListener ==
    /\ pageUrl = main
    /\ listeners = 0
    /\ request = NoRequest
    /\ response = NoResponse
    /\ checks = <<>>

InitLinkType ==
    /\ url \in Urls
    /\ page \in Pages
    /\ tag = NoTag
    /\ IdleListener
    /\ IdleLocator
    /\ IdleRegex
    /\ IdleMail
    /\ IdleSecurity

Classify ==
    /\ tag = NoTag
    /\ tag' = LinkType(url, page)
    /\ UNCHANGED <<url, page, pageUrl, listeners, request, response, checks>>
    /\ UNCHANGED <<locatorVars, regexVars, mailVars, securityVars>>

NextLinkType == Classify

SpecLinkType == InitLinkType /\ [][NextLinkType]_vars

-----------------------------------------------------------------------------
(* The page with its response listeners                                    *)

MaxListeners == 2

Init ==
    /\ url = ""
    /\ page = ""
    /\ tag = NoTag
    /\ IdleListener
    /\ IdleLocator
    /\ IdleRegex
    /\ IdleMail
    /\ IdleSecurity

\* initialize(url, wait): the page navigates to p
Initialize(p) ==
    /\ pageUrl' = p
    /\ UNCHANGED <<url, page, tag, listeners, request, response, checks>>
    /\ UNCHANGED <<locatorVars, regexVars, mailVars, securityVars>>

\* verifyResponses(): this.page.on("response", callback)
VerifyResponses ==
    /\ listeners < MaxListeners
    /\ listeners' = listeners + 1
    /\ UNCHANGED <<url, page, tag, pageUrl, request, response, checks>>
    /\ UNCHANGED <<locatorVars, regexVars, mailVars, securityVars>>

\* the page sends a request for u
SendRequest(u) ==
    /\ request = NoRequest
    /\ request' = [url |-> u, sentOn |-> pageUrl]
    /\ UNCHANGED <<url, page, tag, pageUrl, listeners, response, checks>>
    /\ UNCHANGED <<locatorVars, regexVars, mailVars, securityVars>>

\* this.page.url() as the callback evaluates it: the url the page is on now,
\* not the one it was on when the request was sent
PageUrl_AtRequest(now, sent) == sent

PageUrl(now, sent) == now

\* the page emits "response" for the request in flight: every installed
\* listener runs its callback once, each calling
\* LinkType(response.url(), this.page.url())
ResponseEvent(u) ==
    /\ request # NoRequest
    /\ request.url = u
    /\ \E p \in {PageUrl(pageUrl, request.sentOn)} :
       \E t \in {LinkType(u, p)} : \E st \in Statuses :
           /\ request' = NoRequest
           /\ response' = [url |-> u, status |-> st, sentOn |-> request.sentOn]
           /\ checks' = [k \in 1 .. listeners |-> Callback(u, st, p, t)]
           /\ UNCHANGED <<url, page, tag, pageUrl, listeners>>
           /\ UNCHANGED <<locatorVars, regexVars, mailVars, securityVars>>

Next ==
    \/ \E p \in VisitedPages : Initialize(p)
    \/ VerifyResponses
    \/ \E u \in ResponseUrls : SendRequest(u)
    \/ \E u \in ResponseUrls : ResponseEvent(u)

Spec == Init /\ [][Next]_vars

-----------------------------------------------------------------------------
(* Properties of LinkType, checked under SpecLinkType                      *)

StartsWith(s, w) == Len(w) <= Len(s) /\ SubSeq(s, 1, Len(w)) = w
Contains(s, w) == \E i \in 0 .. (Len(s) - Len(w)) : SubSeq(s, i + 1, i + Len(w)) = w
Returned == tag # NoTag

\* the predicates of the seven rules, in the documented order, and their tags
ConfiguredLiterals ==
    {"https://consentcdn.cookiebot.com/consentconfig/7f599eef-471b-4c16-a0c6-40061801485c/localhost/configuration.js",
     "https://site.example/api/subscribe",
     "https://www.carlyle.com/cdn-cgi/challenge-platform/scripts/jsd/main.js"}
RuleHolds(k, u, p) ==
    CASE k = 1 -> Test(videoPattern, u)
      [] k = 2 -> Some(gaPatterns, u)
      [] k = 3 -> Some(youtubePatterns, u)
      [] k = 4 -> Some(recaptchaPatterns, u)
      [] k = 5 -> Test(exceptPattern, u)
      [] k = 6 -> u \in ConfiguredLiterals \/ p = "https://site.example/financial-results"
      [] k = 7 -> TRUE
RuleTag == <<"Video", "GA", "YT", "Ignore", "Exception", "Ignore", "NONE">>
FirstRule(u, p) ==
    CHOOSE k \in DOMAIN RuleTag :
        RuleHolds(k, u, p) /\ \A j \in 1 .. (k - 1) : ~RuleHolds(j, u, p)

\* C1: for every (url, page) LinkType returns the tag of the first rule, in the
\* order Video, GA, YT, recaptcha Ignore, Exception, literal/page Ignore, default,
\* whose predicate holds; a later rule never overrides an earlier one.
C1_FirstMatchWins == Returned => tag = RuleTag[FirstRule(url, page)]

\* two rules with different tags match the url and the earlier one decided
C1_Witness ==
    /\ Returned
    /\ \E j, k \in 1 .. 6 :
         /\ j < k /\ RuleTag[j] # RuleTag[k]
         /\ RuleHolds(j, url, page) /\ RuleHolds(k, url, page)
         /\ \A i \in 1 .. (j - 1) : ~RuleHolds(i, url, page)
         /\ tag = RuleTag[j]
    /\ page = FinancialPage
    /\ Test(exceptPattern, url)

\* C2 as stated: on the financial-results page LinkType returns Ignore for every
\* url, also for urls matching the Video, GA, YT or Exception patterns.
C2_AlwaysIgnoreOnFinancialPage ==
    (Returned /\ page = FinancialPage) => tag = "Ignore"

\* C2 amended: on the financial-results page LinkType returns Ignore for every
\* url matching none of the Video, GA, YT and Exception patterns; a url matching
\* the Video, GA or YT pattern gets the tag of the first of these rules, and a
\* url matching only the Exception pattern gets Exception, or Ignore when it is
\* a recaptcha url; the default tag is never returned on that page.
C2_IgnoreOnFinancialPageUnlessEarlierRule ==
    (Returned /\ page = FinancialPage) =>
        /\ tag # "NONE"
        /\ (\A k \in {1, 2, 3, 5} : ~RuleHolds(k, url, page)) => tag = "Ignore"
        /\ (\E k \in {1, 2, 3} : RuleHolds(k, url, page)) =>
               tag = RuleTag[FirstRule(url, page)] /\ tag \in {"Video", "GA", "YT"}
        /\ (RuleHolds(5, url, page) /\ \A k \in {1, 2, 3} : ~RuleHolds(k, url, page)) =>
               tag = IF RuleHolds(4, url, page) THEN "Ignore" ELSE "Exception"

\* a plain first-party call observed on the financial-results page is ignored
C2_Witness ==
    /\ page = FinancialPage
    /\ url = "https://example.com/api/data"
    /\ tag = "Ignore"

\* scheme and host as a url parser reads them: the host ends at the end of the
\* url or at the first / ? # :
HasHost(u, hosts) ==
    \E sch \in {"http://", "https://"}, h \in hosts :
        LET n == Len(sch) + Len(h)
        IN  /\ Len(u) >= n
            /\ Canonicalize(SubSeq(u, 1, n)) = Canonicalize(sch \o h)
            /\ Len(u) = n \/ Ch(u, n + 1) \in {"/", "?", "#", ":"}
\* the same, with nothing or a path starting with / after the host
HasHostAndPath(u, hosts) ==
    \E sch \in {"http://", "https://"}, h \in hosts :
        LET n == Len(sch) + Len(h)
        IN  /\ Len(u) >= n
            /\ Canonicalize(SubSeq(u, 1, n)) = Canonicalize(sch \o h)
            /\ Len(u) = n \/ Ch(u, n + 1) = "/"
AnalyticsHosts == {"analytics.google.com", "www.google-analytics.com"}
AdIdPing == "https://googleads.g.doubleclick.net/pagead/id"

\* C3 as stated: every url whose host is analytics.google.com or
\* www.google-analytics.com (any path, any case), and every url containing the
\* DoubleClick ad-id ping path, is classified GA whatever the page is.
C3_AnalyticsAlwaysGA ==
    (Returned /\ (HasHost(url, AnalyticsHosts) \/ Contains(url, AdIdPing))) => tag = "GA"

\* C3 amended: every url made of http:// or https://, one of the two analytics
\* hosts in any letter case and then nothing or a path starting with /, and
\* every url containing the ad-id ping path, is classified GA whatever the page
\* is, unless it also matches the media-file pattern, and then it is Video.
C3_AnalyticsGAUnlessVideo ==
    (Returned /\ (HasHostAndPath(url, AnalyticsHosts) \/ Contains(url, AdIdPing))) =>
        tag = IF RuleHolds(1, url, page) THEN "Video" ELSE "GA"

\* an analytics host in mixed case, and an ad-id ping, classified GA on an
\* arbitrary page
C3_Witness ==
    /\ tag = "GA"
    /\ url \in {"https://Analytics.Google.COM/", "https://googleads.g.doubleclick.net/pagead/id?slf_rd=1"}
    /\ page = FinancialPage

RecaptchaRoot == "https://www.google.com/recaptcha/"

\* C4 as stated: every url that starts with https://www.google.com/recaptcha/ is
\* classified Ignore whatever the rest of the url and the page are.
C4_RecaptchaAlwaysIgnore ==
    (Returned /\ StartsWith(url, RecaptchaRoot)) => tag = "Ignore"

\* C4 amended: every url that starts with https://www.google.com/recaptcha/ is
\* classified Ignore whatever the page is, unless one of the earlier rules
\* (Video, GA, YT) matches the url, and then it gets the tag of the first such rule.
C4_RecaptchaIgnoreUnlessEarlierRule ==
    (Returned /\ StartsWith(url, RecaptchaRoot)) =>
        tag = IF RuleHolds(1, url, page) THEN "Video"
              ELSE IF RuleHolds(2, url, page) THEN "GA"
              ELSE IF RuleHolds(3, url, page) THEN "YT"
              ELSE "Ignore"

\* a recaptcha url outside api2/ and enterprise/ is ignored on an ordinary page
C4_Witness ==
    /\ url = "https://www.google.com/recaptcha/api.js?render=k"
    /\ page = main
    /\ tag = "Ignore"

\* the url up to its query string: the part before the first ?
BeforeQuery(u) ==
    LET Q == {i \in 1 .. Len(u) : Ch(u, i) = "?"}
    IN  IF Q = {} THEN u ELSE SubSeq(u, 1, (CHOOSE i \in Q : \A j \in Q : i <= j) - 1)
EndsWith(s, w) == Len(w) <= Len(s) /\ SubSeq(s, Len(s) - Len(w) + 1, Len(s)) = w
MediaSuffixes == {"." \o MediaExtensions[k] : k \in DOMAIN MediaExtensions}
IsHttpUrl(u) == StartsWith(u, "http://") \/ StartsWith(u, "https://")

\* C5: every http or https url whose path ends in one of the eight media
\* extensions, with or without a trailing query string, is classified Video for
\* every page; a url that contains none of these suffixes is not classified Video.
C5_MediaIsVideo ==
    Returned =>
        /\ (IsHttpUrl(url) /\ \E x \in MediaSuffixes : EndsWith(BeforeQuery(url), x))
               => tag = "Video"
        /\ (\A x \in MediaSuffixes : ~Contains(url, x)) => tag # "Video"

\* a media url with a trailing query string, on the financial-results page
C5_Witness ==
    /\ url = "https://cdn.example.com/media/clip.flac?t=10&q=hd"
    /\ page = FinancialPage
    /\ tag = "Video"

\* the YouTube shapes: the site root, one of the path heads and at least one
\* id character, or the generate_204 ping with its query; anything may follow
YouTubeRoots == {"https://www.youtube.com/", "https://youtube.com/"}
IsYouTubeShape(u) ==
    \/ \E r \in YouTubeRoots, h \in YouTubeHeads :
         /\ StartsWith(u, r \o h)
         /\ Len(u) > Len(r \o h)
         /\ Ch(u, Len(r \o h) + 1) \in WordChars \cup {"-"}
    \/ StartsWith(u, "https://www.youtube.com/generate_204?")

\* C6 as stated: every YouTube url of the watch, embed, playlist, shorts,
\* api/stats, ptracking, search, channel, user or generate_204 shape, followed by
\* any number of &key=value pairs, is classified YT for every page.
C6_YouTubeAlwaysYT == (Returned /\ IsYouTubeShape(url)) => tag = "YT"

\* C6 amended: every url that starts with https://www.youtube.com/ or
\* https://youtube.com/, one of the path heads and at least one id character
\* (letter, digit, _ or -), or with https://www.youtube.com/generate_204?,
\* followed by any number of &key=value pairs, is classified YT for every page,
\* unless an earlier rule (Video, GA) matches the url, and then it gets the tag
\* of the first such rule.
C6_YouTubeYTUnlessEarlierRule ==
    (Returned /\ IsYouTubeShape(url)) =>
        tag = IF RuleHolds(1, url, page) THEN "Video"
              ELSE IF RuleHolds(2, url, page) THEN "GA"
              ELSE "YT"

\* a tracking url with trailing pairs, classified YT on the financial-results page
C6_Witness ==
    /\ url = "https://www.youtube.com/api/stats/qoe?dQw4-w9_WgX&t=10&list=PL1"
    /\ page = FinancialPage
    /\ tag = "YT"

\* the canonical beacons, and the urls obtained from one of them by exchanging
\* two query parameters or by leaving one out
BeaconVariants == BeaconReordered \cup BeaconOmitted
EarlierThanException(u, p) == \E k \in 1 .. 4 : RuleHolds(k, u, p)

\* C7 as stated: the canonical beacon is classified Exception, and a url obtained
\* from it by reordering two query parameters or omitting one is not: it falls
\* through to the default tag unless an earlier rule matches it.
C7_VariantFallsToDefault ==
    Returned =>
        /\ url = CanonicalBeacon => tag = "Exception"
        /\ (url \in BeaconVariants /\ ~EarlierThanException(url, page)) => tag = "NONE"

\* C7 amended: the canonical beacon is classified Exception, and a url obtained
\* from it by reordering two query parameters or omitting one is not: unless an
\* earlier rule matches it, it falls through to the last rules, Ignore when the
\* page is the financial-results page and the default tag otherwise.
C7_VariantFallsThrough ==
    Returned =>
        /\ url = CanonicalBeacon => tag = "Exception"
        /\ url \in BeaconVariants => tag # "Exception"
        /\ (url \in BeaconVariants /\ ~EarlierThanException(url, page)) =>
               tag = IF page = FinancialPage THEN "Ignore" ELSE "NONE"

\* the beacon without its last parameter falls to the default tag
C7_Witness ==
    /\ url = Beacon(Omit(BeaconParams, Len(BeaconParams)))
    /\ page = main
    /\ tag = "NONE"

\* C8 as stated: the value returned is one of Video, GA, YT, Ignore, Exception,
\* None, spelled exactly so.
C8_TagInSpecSet ==
    Returned => tag \in {"Video", "GA", "YT", "Ignore", "Exception", "None"}

\* C8 amended: the value returned is one of the six tags Video, GA, YT, Ignore,
\* Exception, NONE; the default tag is spelled NONE, in capitals.
C8_TagInClosedSet ==
    Returned => tag \in {"Video", "GA", "YT", "Ignore", "Exception", "NONE"}

\* the default tag is returned
C8_Witness == url = "https://site.example/about" /\ page = main /\ tag = "NONE"

\* C9: LinkType is total: for every pair of strings, the empty string included,
\* the call has a tag to return and returns it, and when url matches none of the
\* patterns, equals none of the configured literals and page is not the
\* financial-results page, that tag is the default one (NONE in the code).
C9_TotalWithDefault ==
    /\ LinkType(url, page) \in Range(RuleTag)
    /\ Returned =>
         /\ tag \in Range(RuleTag)
         /\ (\A k \in 1 .. 6 : ~RuleHolds(k, url, page)) => tag = "NONE"

\* the empty url and an arbitrary first-party url on ordinary pages
C9_Witness ==
    /\ tag = "NONE"
    /\ \/ url = "" /\ page = ""
       \/ url = "https://example.com/api/data" /\ page = main

-----------------------------------------------------------------------------
(* Properties of the response listener, checked under Spec                 *)

Accepted(t) ==
    CASE t = "Video" -> {200, 204, 206, 304}
      [] t = "GA"    -> {200, 204, 302, 304}
      [] t = "YT"    -> {200, 204}
      [] OTHER       -> {200, 204, 206} \cup 300 .. 399

\* C10: in the listener of verifyResponses the assertion on a response passes
\* exactly when its status is in the set of its tag, and for the tags Exception
\* and Ignore no assertion is made whatever the status is.
C10_StatusPolicy ==
    \A k \in DOMAIN checks :
        LET c == checks[k]
        IN  IF c.tag \in {"Exception", "Ignore"}
            THEN c.outcome = "none"
            ELSE /\ c.outcome \in {"pass", "fail"}
                 /\ c.outcome = "pass" <=> response.status \in Accepted(c.tag)

\* a redirect on a default-tag response passes, and the listener is installed
C10_Witness ==
    /\ listeners > 0
    /\ \E k \in DOMAIN checks :
         /\ checks[k].tag = "NONE"
         /\ response.status = 399
         /\ checks[k].outcome = "pass"

-----------------------------------------------------------------------------
(* pageClass.ts: the locator-composing methods.  A Locator is the chain of  *)
(* calls that built it, starting at this.page; building one asks the page   *)
(* nothing.                                                                 *)

Step(op, arg) == [op |-> op, arg |-> arg, n |-> 0, name |-> Undefined, exact |-> Undefined]
GetByTestId(testId) == Step("getByTestId", testId)
Locator(selector) == Step("locator", selector)
\* getByRole(role, roleName ? { name: roleName.name, exact: roleName.exact } : {})
GetByRole(role, roleName) ==
    [op |-> "getByRole", arg |-> role, n |-> 0,
     name |-> IF roleName.given THEN roleName.name ELSE Undefined,
     exact |-> IF roleName.given THEN roleName.exact ELSE Undefined]
GetByText(text) == Step("getByText", text)
FilterHasText(text) == Step("filter", text)
Nth(n) == [op |-> "nth", arg |-> "", n |-> n, name |-> Undefined, exact |-> Undefined]
Last == Step("last", "")

\* if (v) for a string or undefined v
Truthy_DefinedOnly(v) == v # Undefined

Truthy(v) == v # Undefined /\ v # ""

\* the methods that compose a locator from an options object with
\* let locator = null, baseUsed = null
Methods ==
    {"deleteElement", "verifyDesing", "verifyText", "verifyAttribute", "verifyCss",
     "TestVisible", "TestExist", "writeInput", "clearInput", "verifyHypervincle",
     "clickElement", "hoverElement", "waitfor"}

\* the methods whose base chain has no `else if (text)` branch
NoTextBase_None == {}

NoTextBase == {"verifyDesing", "verifyText", "verifyHypervincle"}

\* the fields of the base chain of method m, in the order of its else-ifs
BaseChain(m) ==
    IF m \in NoTextBase THEN <<"testId", "id", "classes", "tag", "role">>
    ELSE <<"testId", "id", "classes", "tag", "role", "text">>

\* the fields method m has an `if (field && baseUsed !== field)` statement for,
\* in the order of the statements
Refinements_TagBeforeRole(m) ==
    IF m \in NoTextBase THEN <<"id", "classes", "tag", "role">>
    ELSE IF m \in {"TestVisible", "TestExist"} THEN <<"id", "tag", "role", "text">>
    ELSE <<"id", "classes", "tag", "role", "text">>

Refinements(m) ==
    IF m \in NoTextBase THEN <<"id", "classes", "role", "tag">>
    ELSE IF m \in {"TestVisible", "TestExist"} THEN <<"id", "role", "tag", "text">>
    ELSE <<"id", "classes", "role", "tag", "text">>

\* the framework call the method awaits first on the finished locator
Awaited(m) ==
    CASE m = "deleteElement"     -> "evaluate"
      [] m = "verifyDesing"      -> "screenshot"
      [] m = "verifyText"        -> "toHaveText"
      [] m = "verifyAttribute"   -> "toHaveAttribute"
      [] m = "verifyCss"         -> "toHaveCSS"
      [] m = "TestVisible"       -> "toBeVisible"
      [] m = "TestExist"         -> "isVisible"
      [] m = "writeInput"        -> "fill"
      [] m = "clearInput"        -> "clear"
      [] m = "verifyHypervincle" -> "toHaveAttribute"
      [] m = "clickElement"      -> "scrollIntoViewIfNeeded"
      [] m = "hoverElement"      -> "hover"
      [] m = "waitfor"           -> "waitFor"
      [] m = "testImage"         -> "toHaveAttribute"

\* the first field of the chain that is truthy, NoBase when the chain falls
\* through to its else branch
BaseOf_LastWins(chain, o) ==
    LET T == {k \in DOMAIN chain : Truthy(o[chain[k]])}
    IN  IF T = {} THEN NoBase ELSE chain[CHOOSE k \in T : \A j \in T : j <= k]

BaseOf(chain, o) ==
    LET T == {k \in DOMAIN chain : Truthy(o[chain[k]])}
    IN  IF T = {} THEN NoBase ELSE chain[CHOOSE k \in T : \A j \in T : k <= j]

\* the call each field contributes, as base (on this.page) or as refinement
\* (on the locator so far)
BaseStep(f, o) ==
    CASE f = "testId"  -> GetByTestId(o.testId)
      [] f = "id"      -> Locator("#" \o o.id)
      [] f = "classes" -> Locator("." \o o.classes)
      [] f = "tag"     -> Locator(o.tag)
      [] f = "role"    -> GetByRole(o.role, o.roleName)
      [] f = "text"    -> GetByText(o.text)

RefineStep(f, o) ==
    IF f = "text" THEN FilterHasText(o.text) ELSE BaseStep(f, o)

\* if (typeof nth === "number") locator.nth(nth) else if (nth === "last") locator.last()
Indexed_TruthyNth(l, nth) ==
    IF nth.kind = "number" /\ nth.n # 0 THEN Append(l, Nth(nth.n))
    ELSE IF nth.kind = "last" THEN Append(l, Last)
    ELSE l

Indexed(l, nth) ==
    IF nth.kind = "number" THEN Append(l, Nth(nth.n))
    ELSE IF nth.kind = "last" THEN Append(l, Last)
    ELSE l

\* the body of method m up to its first await: thrown is TRUE when the base
\* chain ends in throw new Error(...), else locator is the finished chain
Compose(m, o) ==
    LET b == BaseOf(BaseChain(m), o)
        fs == SelectSeq(Refinements(m), LAMBDA f : Truthy(o[f]) /\ f # b)
    IN  IF b = NoBase THEN [thrown |-> TRUE, baseUsed |-> NoBase, locator |-> <<>>]
        ELSE [thrown |-> FALSE, baseUsed |-> b,
              locator |-> Indexed(<<BaseStep(b, o)>> \o [k \in DOMAIN fs |-> RefineStep(fs[k], o)],
                                  o.nth)]

\* testImage: composes only under if (testId), and does nothing otherwise
TestImage_ThrowsWithoutTestId(o) ==
    IF Truthy(o.testId)
    THEN [thrown |-> FALSE, baseUsed |-> "testId",
          locator |-> Indexed(<<GetByTestId(o.testId)>>, o.nth)]
    ELSE [thrown |-> TRUE, baseUsed |-> NoBase, locator |-> <<>>]

TestImage(o) ==
    IF Truthy(o.testId)
    THEN LET l0 == <<GetByTestId(o.testId)>>
             l1 == IF Truthy(o.role) THEN Append(l0, GetByRole(o.role, NoRoleName)) ELSE l0
             l2 == IF o.nth.kind = "number" THEN Append(l1, Nth(o.nth.n)) ELSE l1
             l3 == IF o.nth.kind = "last" THEN Append(l2, Last) ELSE l2
         IN  [thrown |-> FALSE, baseUsed |-> "testId", locator |-> l3]
    ELSE [thrown |-> FALSE, baseUsed |-> NoBase, locator |-> <<>>]

-----------------------------------------------------------------------------
(* A call of one locator-composing method: the method and its options are  *)
(* drawn first, then the method runs up to its first await.                *)

MaxNth == 1
Nths == {NthAbsent, NthLast} \cup {NthNumber(n) : n \in 0 .. MaxNth}
OptionValues(v) == {Undefined, "", v}
Requests ==
    [testId : OptionValues("hero"), id : OptionValues("main"),
     classes : OptionValues("btn"), tag : OptionValues("button"),
     role : OptionValues("link"), roleName : {NoRoleName, RoleName("Save", "true")},
     text : OptionValues("Save"), nth : Nths]

InitLocator ==
    /\ url = "" /\ page = "" /\ tag = NoTag
    /\ IdleListener
    /\ IdleRegex
    /\ IdleMail
    /\ IdleSecurity
    /\ method \in Methods \cup {"testImage"}
    /\ options \in Requests
    /\ locator = <<>>
    /\ baseUsed = NoBase
    /\ outcome = "called"
    /\ dom = <<>>
    /\ acted = NoElement

\* the method runs: it throws, or it returns having done nothing (testImage
\* without testId), or it hands the finished locator to the framework call it
\* awaits
Call ==
    /\ outcome = "called"
    /\ LET r == IF method = "testImage" THEN TestImage(options) ELSE Compose(method, options)
       IN  /\ locator' = r.locator
           /\ baseUsed' = r.baseUsed
           /\ outcome' = IF r.thrown THEN "threw"
                         ELSE IF r.locator = <<>> THEN "returned"
                         ELSE "awaiting"
    /\ acted' = [acted EXCEPT !.builtOn = dom]
    /\ UNCHANGED <<method, options, dom>>
    /\ UNCHANGED <<classifierVars, listenerVars, regexVars, mailVars, securityVars>>

NextLocator == Call

SpecLocator == InitLocator /\ [][NextLocator]_vars

-----------------------------------------------------------------------------
(* Properties of the locator-composing methods, checked under SpecLocator  *)

SelectionFields == <<"testId", "id", "classes", "tag", "role", "text">>
Present(f) == options[f] \notin {Undefined, ""}
\* text selects the base everywhere but in verifyText, verifyHypervincle and
\* the element focus of verifyDesing
BaseEligible(f) ==
    f # "text" \/ method \notin {"verifyText", "verifyHypervincle", "verifyDesing"}
Ran == outcome # "called"
\* the call on this.page that looks up field f
PageCall(f) ==
    CASE f = "testId"  -> [op |-> "getByTestId", arg |-> options.testId]
      [] f = "id"      -> [op |-> "locator", arg |-> "#" \o options.id]
      [] f = "classes" -> [op |-> "locator", arg |-> "." \o options.classes]
      [] f = "tag"     -> [op |-> "locator", arg |-> options.tag]
      [] f = "role"    -> [op |-> "getByRole", arg |-> options.role]
      [] f = "text"    -> [op |-> "getByText", arg |-> options.text]
OpArg(st) == [op |-> st.op, arg |-> st.arg]

\* C11: in every locator-composing method the base is the first non-empty field
\* in the order testId, id, classes, tag, role, text (text left out where it is
\* not base-eligible); an empty string counts as absent; a non-empty id next to
\* a non-empty testId is a refinement chained after the testId base
C11_BaseIsFirstNonEmpty ==
    (Ran /\ method \in Methods) =>
        \A k \in DOMAIN SelectionFields :
            LET f == SelectionFields[k]
            IN  (/\ Present(f) /\ BaseEligible(f)
                 /\ \A j \in 1 .. (k - 1) :
                        ~(Present(SelectionFields[j]) /\ BaseEligible(SelectionFields[j])))
                => /\ outcome = "awaiting"
                   /\ baseUsed = f
                   /\ OpArg(locator[1]) = PageCall(f)
                   /\ (f = "testId" /\ Present("id"))
                          => (Len(locator) >= 2 /\ OpArg(locator[2]) = PageCall("id"))

C11_Witness ==
    /\ method = "verifyText" /\ outcome = "awaiting"
    /\ options.testId = "" /\ options.id = "main" /\ options.classes = "btn"
    /\ options.text = "Save"
    /\ baseUsed = "id"

RefinementFields == <<"id", "classes", "role", "tag", "text">>
\* the chained call that narrows a locator by field f
ChainedCall(f) ==
    IF f = "text" THEN [op |-> "filter", arg |-> options.text] ELSE PageCall(f)
RefinedBy(f) == \E k \in 2 .. Len(locator) : OpArg(locator[k]) = ChainedCall(f)

\* C12: every non-empty field among id, classes, role, tag, text that the method
\* takes as a selection field and that is not the base is chained onto the
\* locator as a refinement; none is dropped, in particular not classes in
\* TestVisible and TestExist under a testId or id base
C12_EveryFieldRefines ==
    (method \in Methods /\ outcome = "awaiting") =>
        \A k \in DOMAIN RefinementFields :
            LET f == RefinementFields[k]
            IN  (Present(f) /\ BaseEligible(f) /\ baseUsed # f) => RefinedBy(f)

NoBaseField == \A k \in DOMAIN SelectionFields :
                   ~(Present(SelectionFields[k]) /\ BaseEligible(SelectionFields[k]))

\* C13: when every base-eligible field is absent or empty (an empty options
\* object, or one with only nth and/or roleName) the method throws: no locator
\* was built and no framework action or assertion was issued
C13_NoBaseThrows ==
    (Ran /\ method \in Methods /\ NoBaseField) =>
        /\ outcome = "threw"
        /\ locator = <<>>
        /\ baseUsed = NoBase

C13_Witness ==
    /\ method = "deleteElement" /\ outcome = "threw"
    /\ \A k \in DOMAIN SelectionFields : options[SelectionFields[k]] \in {Undefined, ""}
    /\ options.testId = "" /\ options.text = Undefined
    /\ options.nth = NthLast /\ options.roleName.given

TextOnly ==
    /\ Present("text")
    /\ \A f \in {"testId", "id", "classes", "tag", "role"} : ~Present(f)

IndexSteps == {k \in DOMAIN locator : locator[k].op \in {"nth", "last"}}

\* C15: the index selection is the last step of the composition: a numeric nth
\* (0 included) chains nth(n), "last" chains last(), an absent nth chains
\* nothing; no locator carries more than one index selection
C15_IndexIsLastStep ==
    (outcome = "awaiting") =>
        /\ Cardinality(IndexSteps) <= 1
        /\ IndexSteps \subseteq {Len(locator)}
        /\ options.nth.kind = "number" =>
               /\ IndexSteps # {}
               /\ locator[Len(locator)].op = "nth"
               /\ locator[Len(locator)].n = options.nth.n
        /\ options.nth.kind = "last" =>
               IndexSteps # {} /\ locator[Len(locator)].op = "last"
        /\ options.nth.kind = "undefined" => IndexSteps = {}

C15_Witness ==
    /\ method = "clickElement" /\ outcome = "awaiting"
    /\ options.nth = NthNumber(0)
    /\ Len(locator) = 4
    /\ locator[4] = Nth(0)
    /\ locator[3].op = "filter"

-----------------------------------------------------------------------------
(* The page behind the locator.  An element is [key, testId]; the page is   *)
(* the sequence of its elements in document order.  The framework resolves  *)
(* a Locator against the page each time an action or assertion runs on it. *)

\* the matches of one call of the chain, given the matches cur of the chain
\* before it and the page d
Resolved(st, cur, d) ==
    CASE st.op = "getByTestId" -> SelectSeq(d, LAMBDA e : e.testId = st.arg)
      [] st.op = "nth"  -> IF st.n < Len(cur) THEN <<cur[st.n + 1]>> ELSE <<>>
      [] st.op = "last" -> IF cur = <<>> THEN <<>> ELSE <<cur[Len(cur)]>>

RECURSIVE ResolveFrom(_, _, _, _)
ResolveFrom(l, k, cur, d) ==
    IF k > Len(l) THEN cur ELSE ResolveFrom(l, k + 1, Resolved(l[k], cur, d), d)

\* the page a pending action resolves its locator against: the page as it is
\* now, not as it was when the locator was built
Evaluated_AtBuild(now, built) == built

Evaluated(now, built) == now

Resolve(l) == ResolveFrom(l, 1, <<>>, Evaluated(dom, acted.builtOn))

MaxKey == 3
TestIds == {"hero", "other"}
Elements == [key : 1 .. MaxKey, testId : TestIds]
Keys(d) == {d[k].key : k \in DOMAIN d}
Without(d, key) == SelectSeq(d, LAMBDA e : e.key # key)
InsertAt(d, k, e) == SubSeq(d, 1, k) \o <<e>> \o SubSeq(d, k + 1, Len(d))
PageMethods == {"deleteElement", "waitfor"}
PageRequests == {[NoOptions EXCEPT !.testId = "hero", !.nth = n] : n \in Nths}
\* the pages a method may be called on
Pages0 ==
    {<<>>} \cup {<<e>> : e \in Elements}
           \cup {ef \in Elements \X Elements : ef[1].key # ef[2].key}

InitPage ==
    /\ url = "" /\ page = "" /\ tag = NoTag
    /\ IdleListener
    /\ IdleRegex
    /\ IdleMail
    /\ IdleSecurity
    /\ method \in PageMethods
    /\ options \in PageRequests
    /\ locator = <<>>
    /\ baseUsed = NoBase
    /\ outcome = "called"
    /\ dom \in Pages0
    /\ acted = NoElement

\* the page changes while the framework call is pending: a script adds an
\* element
AddElement(e, k) ==
    /\ outcome = "awaiting"
    /\ e.key \notin Keys(dom)
    /\ k \in 0 .. Len(dom)
    /\ dom' = InsertAt(dom, k, e)
    /\ UNCHANGED <<method, options, locator, baseUsed, outcome, acted>>
    /\ UNCHANGED <<classifierVars, listenerVars, regexVars, mailVars, securityVars>>

\* the page changes while the framework call is pending: a script removes an
\* element
RemoveElement(key) ==
    /\ outcome = "awaiting"
    /\ key \in Keys(dom)
    /\ dom' = Without(dom, key)
    /\ UNCHANGED <<method, options, locator, baseUsed, outcome, acted>>
    /\ UNCHANGED <<classifierVars, listenerVars, regexVars, mailVars, securityVars>>

\* the awaited framework call runs: it resolves the locator now; with one
\* match it acts on it (deleteElement: el.remove()), with several it throws
\* (strict mode), with none it keeps waiting
Act ==
    /\ outcome = "awaiting"
    /\ LET found == Resolve(locator)
       IN  /\ found # <<>>
           /\ IF Len(found) = 1
              THEN /\ outcome' = "acted"
                   /\ acted' = [acted EXCEPT !.on = found[1].key, !.among = dom]
                   /\ dom' = IF Awaited(method) = "evaluate"
                             THEN Without(dom, found[1].key) ELSE dom
              ELSE /\ outcome' = "threw"
                   /\ UNCHANGED <<acted, dom>>
    /\ UNCHANGED <<method, options, locator, baseUsed>>
    /\ UNCHANGED <<classifierVars, listenerVars, regexVars, mailVars, securityVars>>

\* the awaited framework call gives up waiting for a match
TimeOut ==
    /\ outcome = "awaiting"
    /\ Resolve(locator) = <<>>
    /\ outcome' = "threw"
    /\ UNCHANGED <<method, options, locator, baseUsed, dom, acted>>
    /\ UNCHANGED <<classifierVars, listenerVars, regexVars, mailVars, securityVars>>

NextPage ==
    \/ Call
    \/ \E e \in Elements : \E k \in 0 .. MaxKey : AddElement(e, k)
    \/ \E key \in 1 .. MaxKey : RemoveElement(key)
    \/ Act
    \/ TimeOut

SpecPage == InitPage /\ [][NextPage]_vars

-----------------------------------------------------------------------------
(* Properties of locator evaluation, checked under SpecPage                *)

\* the positions of page d whose element carries the requested test id
MatchesIn(d) == {k \in DOMAIN d : d[k].testId = options.testId}
FinalMatch(d) == d[CHOOSE k \in MatchesIn(d) : \A j \in MatchesIn(d) : j <= k]

-----------------------------------------------------------------------------
(* helpers.ts: LinkType called again and again on the same RegExp objects.  *)
(* pattern.test(s) reads and writes pattern.lastIndex when the pattern has  *)
(* the g flag, and leaves it alone otherwise.                               *)

Min(S) == CHOOSE x \in S : \A y \in S : x <= y
Max(S) == CHOOSE x \in S : \A y \in S : y <= x

\* pattern.test(s) with pattern.lastIndex = li: whether it matched, and
\* pattern.lastIndex afterwards.  With the g flag the search starts at li and a
\* match leaves lastIndex at its end (the longest end: every quantifier of
\* the patterns is greedy), a failure leaves it at 0.
TestAt(pattern, s, li) ==
    IF ~pattern.global THEN [found |-> Test(pattern, s), lastIndex |-> li]
    ELSE LET in == IF pattern.ignoreCase THEN Canonicalize(s) ELSE s
             Starts == {i \in li .. Len(in) :
                            Ends(pattern.re, in, {i}, pattern.ignoreCase) # {}}
         IN  IF Starts = {} THEN [found |-> FALSE, lastIndex |-> 0]
             ELSE [found |-> TRUE,
                   lastIndex |-> Max(Ends(pattern.re, in, {Min(Starts)}, pattern.ignoreCase))]

\* the tag of the rule each RegExp object belongs to
PatternTags == <<"Video", "GA", "GA", "YT", "YT", "Ignore", "Ignore", "Ignore", "Exception">>

\* LinkType(u, p) run on RegExp objects whose lastIndex is li: the patterns are
\* tested in order until one matches (some() stops at its first match); the
\* tag, and every lastIndex afterwards
RECURSIVE LinkTypeFrom(_, _, _, _)
LinkTypeFrom(k, u, p, li) ==
    IF k > Len(RegExps)
    THEN [tag |-> IF \/ \E j \in DOMAIN exceptUrls : exceptUrls[j] = u
                     \/ \E j \in DOMAIN exceptPages : exceptPages[j] = p
                  THEN "Ignore" ELSE "NONE",
          lastIndex |-> li]
    ELSE LET r == TestAt(RegExps[k], u, li[k])
             after == [li EXCEPT ![k] = r.lastIndex]
         IN  IF r.found THEN [tag |-> PatternTags[k], lastIndex |-> after]
             ELSE LinkTypeFrom(k + 1, u, p, after)

MaxCalls == 3
CallUrls == {"https://cdn.example.com/media/clip.mp4", "https://www.youtube.com/embed/abc",
             "https://example.com/api/data"}

InitCalls ==
    /\ url = "" /\ page = "" /\ tag = NoTag
    /\ IdleListener
    /\ IdleLocator
    /\ IdleRegex
    /\ IdleMail
    /\ IdleSecurity

\* one call LinkType(u, p) from its first statement to its return
CallLinkType(u, p) ==
    /\ Len(returned) < MaxCalls
    /\ \E r \in {LinkTypeFrom(1, u, p, lastIndex)} :
           /\ url' = u /\ page' = p /\ tag' = r.tag
           /\ lastIndex' = r.lastIndex
           /\ returned' = Append(returned, [url |-> u, page |-> p, tag |-> r.tag])
    /\ UNCHANGED <<listenerVars, locatorVars, mailVars, securityVars>>

NextCalls == \E u \in CallUrls : \E p \in VisitedPages : CallLinkType(u, p)

SpecCalls == InitCalls /\ [][NextCalls]_vars

-----------------------------------------------------------------------------
(* Properties of repeated calls of LinkType, checked under SpecCalls       *)

\* C17: LinkType keeps no state between calls: a call returns what every
\* earlier call with the same (url, page) returned, whatever calls came in
\* between, which is the value of the function at (url, page); no RegExp
\* object of the module carries a match position
C17_NoStateBetweenCalls ==
    /\ \A i, j \in DOMAIN returned :
           (returned[i].url = returned[j].url /\ returned[i].page = returned[j].page)
               => returned[i].tag = returned[j].tag
    /\ \A i \in DOMAIN returned :
           returned[i].tag = LinkType(returned[i].url, returned[i].page)
    /\ \A k \in DOMAIN lastIndex : lastIndex[k] = 0

C17_Witness ==
    /\ Len(returned) = 3
    /\ returned[1].url = "https://cdn.example.com/media/clip.mp4"
    /\ returned[2].url = "https://www.youtube.com/embed/abc"
    /\ returned[3] = returned[1]
    /\ returned[3].tag = "Video"

-----------------------------------------------------------------------------
(* helpers.ts: getWorkingMailSlurp                                          *)

\* the built-in keys, each shortened to the eight characters the warning of
\* the catch block prints (key.slice(0, 8))
apiKeys == <<"245ff1a2", "5456176b", "f0c0fcff">>

\* s.split(","): the pieces between the commas, empty pieces included
CommaAt(s) == {i \in 1 .. Len(s) : Ch(s, i) = ","}
Cut(s, k) ==
    IF k = 0 THEN 0
    ELSE IF k > Cardinality(CommaAt(s)) THEN Len(s) + 1
    ELSE CHOOSE i \in CommaAt(s) : Cardinality({j \in CommaAt(s) : j <= i}) = k
Split(s) ==
    [k \in 1 .. (Cardinality(CommaAt(s)) + 1) |-> SubSeq(s, Cut(s, k - 1) + 1, Cut(s, k) - 1)]

\* k.trim(): k without its leading and trailing white space
WhiteSpace == {" ", "\t", "\n", "\r", "\f"}
Trim_None(k) == k

Trim(k) ==
    LET Inked == {i \in 1 .. Len(k) : Ch(k, i) \notin WhiteSpace}
    IN  IF Inked = {} THEN "" ELSE SubSeq(k, Min(Inked), Max(Inked))

\* (process.env.MAILSLURP_API_KEYS || "").split(",").map((k) => k.trim()).filter(Boolean)
EnvKeys(e) ==
    LET raw == Split(IF e.set THEN e.value ELSE "")
    IN  SelectSeq([k \in DOMAIN raw |-> Trim(raw[k])], LAMBDA k : k # "")

\* where the loop stands after createInbox settled for key number k of n:
\* return on success, next key on failure, throw after the last failure
Settled_FailureThrows(ok, k, n) == IF ok THEN "returned" ELSE "threw"

Settled_ReturnAtEnd(ok, k, n) ==
    IF k < n THEN "running" ELSE IF ok THEN "returned" ELSE "threw"

Settled(ok, k, n) ==
    IF ok THEN "returned" ELSE IF k = n THEN "threw" ELSE "running"

MaxParts == 3
Parts == {"", " ", "env-key-1", " env-key-2\t", apiKeys[2]}
RECURSIVE Joined(_)
Joined(n) ==
    IF n = 1 THEN Parts ELSE {a \o "," \o b : a \in Joined(n - 1), b \in Parts}
EnvValues == {EnvUnset} \cup {EnvSet(v) : v \in UNION {Joined(n) : n \in 1 .. MaxParts}}

InitMail ==
    /\ url = "" /\ page = "" /\ tag = NoTag
    /\ IdleListener
    /\ IdleLocator
    /\ IdleRegex
    /\ env \in EnvValues
    /\ keysToTry = <<>>
    /\ tried = <<>>
    /\ mailResult = NoClient("idle")
    /\ IdleSecurity

\* getWorkingMailSlurp() up to its first await: the candidate list is chosen;
\* with no candidate the loop body never runs and the function throws
GetWorkingMailSlurp ==
    /\ mailResult.status = "idle"
    /\ LET envKeys == EnvKeys(env)
       IN  /\ keysToTry' = IF Len(envKeys) > 0 THEN envKeys ELSE apiKeys
           /\ mailResult' = [NoClient(IF keysToTry' = <<>> THEN "threw" ELSE "running")
                               EXCEPT !.from = IF Len(envKeys) > 0 THEN "env" ELSE "apiKeys"]
    /\ UNCHANGED <<env, tried>>
    /\ UNCHANGED <<classifierVars, listenerVars, locatorVars, regexVars, securityVars>>

\* await mailslurp.inboxController.createInbox({}) settles for the next key:
\* it resolves with a new inbox (ok) or rejects
CreateInbox(ok) ==
    /\ mailResult.status = "running"
    /\ LET k == Len(tried) + 1
           key == keysToTry[k]
           status == Settled(ok, k, Len(keysToTry))
       IN  /\ tried' = Append(tried, [key |-> key, ok |-> ok,
                                      from |-> mailResult.from])
           /\ mailResult' = IF status = "returned"
                            THEN [mailResult EXCEPT !.status = status, !.apiKey = key, !.inbox = k]
                            ELSE [mailResult EXCEPT !.status = status]
    /\ UNCHANGED <<env, keysToTry>>
    /\ UNCHANGED <<classifierVars, listenerVars, locatorVars, regexVars, securityVars>>

NextMail ==
    \/ GetWorkingMailSlurp
    \/ \E ok \in BOOLEAN : CreateInbox(ok)

SpecMail == InitMail /\ [][NextMail]_vars

\* every createInbox call settles
SpecMailFair == SpecMail /\ WF_vars(NextMail)

-----------------------------------------------------------------------------
(* Properties of getWorkingMailSlurp, checked under SpecMail               *)

InboxesCreated == {i \in DOMAIN tried : tried[i].ok}

\* C18: the keys are tried in list order, one createInbox call each; the call
\* returns the client and inbox of the first key whose createInbox succeeds:
\* every key before it failed, none after it is tried, and exactly one inbox
\* was created
C18_FirstWorkingKey ==
    /\ Len(tried) <= Len(keysToTry)
    /\ \A i \in DOMAIN tried : tried[i].key = keysToTry[i]
    /\ Cardinality(InboxesCreated) <= 1
    /\ InboxesCreated # {} => mailResult.status = "returned"
    /\ mailResult.status = "returned" =>
           LET n == Len(tried)
           IN  /\ n >= 1
               /\ InboxesCreated = {n}
               /\ \A i \in 1 .. (n - 1) : ~tried[i].ok
               /\ mailResult.apiKey = keysToTry[n]
               /\ mailResult.inbox = n

C18_Witness ==
    /\ mailResult.status = "returned"
    /\ Len(keysToTry) = 3 /\ Len(tried) = 2
    /\ ~tried[1].ok /\ tried[2].ok
    /\ mailResult.apiKey = keysToTry[2]

Finished == mailResult.status \in {"returned", "threw"}
AllFailed == Len(tried) = Len(keysToTry) /\ \A i \in DOMAIN tried : ~tried[i].ok

\* C19: the call throws exactly when createInbox failed for every candidate
\* key; a failure with a key still untried is caught and the loop goes on; no
\* key is tried twice, and the call finishes (checked under SpecMailFair)
C19_ThrowsIffAllFail ==
    /\ [](mailResult.status # "idle" =>
            /\ (mailResult.status = "threw") <=> AllFailed
            /\ Len(tried) <= Len(keysToTry)
            /\ (InboxesCreated = {} /\ Len(tried) < Len(keysToTry))
                   => mailResult.status = "running")
    /\ <>Finished

C19_Witness ==
    /\ mailResult.status = "threw"
    /\ env = EnvUnset
    /\ keysToTry = apiKeys
    /\ Len(tried) = 3 /\ AllFailed

\* the environment variable holds a character that is neither a comma nor
\* white space
YieldsKey ==
    /\ env.set
    /\ \E i \in 1 .. Len(env.value) : Ch(env.value, i) \notin WhiteSpace \cup {","}
\* the comma-separated pieces of the variable that hold such a character
InkedPieces ==
    {k \in 1 .. (Cardinality(CommaAt(env.value)) + 1) :
         \E i \in (Cut(env.value, k - 1) + 1) .. (Cut(env.value, k) - 1) :
             Ch(env.value, i) \notin WhiteSpace}
IsTrimmedPiece(key) ==
    /\ key # ""
    /\ Contains(env.value, key)
    /\ CommaAt(key) = {}
    /\ Ch(key, 1) \notin WhiteSpace /\ Ch(key, Len(key)) \notin WhiteSpace

\* C20: when MAILSLURP_API_KEYS yields at least one non-empty key after
\* splitting on commas and trimming, the candidates are those keys and no
\* key is taken from the built-in list; the built-in list is used only when
\* the variable is unset or yields no such key
C20_EnvKeysFirst ==
    mailResult.status # "idle" =>
        IF YieldsKey
        THEN /\ Len(keysToTry) = Cardinality(InkedPieces)
             /\ \A k \in DOMAIN keysToTry : IsTrimmedPiece(keysToTry[k])
             /\ \A i \in DOMAIN tried : tried[i].from = "env"
        ELSE /\ keysToTry = apiKeys
             /\ \A i \in DOMAIN tried : tried[i].from = "apiKeys"

C20_Witness ==
    /\ env = EnvSet(" , env-key-2\t,5456176b")
    /\ keysToTry = <<"env-key-2", "5456176b">>
    /\ mailResult.status = "threw"
    /\ Len(tried) = 2 /\ tried[2].from = "env"

-----------------------------------------------------------------------------
(* pageClass.ts: verifyStatusAndSecurityHeaders                             *)

\* the headers asserted with expect(header).toHaveProperty(name), in order
RequiredHeaders ==
    <<"x-xss-protection", "strict-transport-security", "x-frame-options",
      "x-content-type-options", "content-security-policy", "referrer-policy">>

\* whether the try block throws: page.goto rejects, or one of the expect
\* calls fails (the else branch is expect(null).toBeTruthy())
Throws(nav, monitoringId) ==
    CASE nav.kind = "error" -> TRUE
      [] nav.kind = "null"  -> TRUE
      [] nav.kind = "response" ->
           \/ nav.status # 200
           \/ \E k \in DOMAIN RequiredHeaders : RequiredHeaders[k] \notin nav.headers
           \/ nav.monitoring # monitoringId

HeaderSets == SUBSET Range(RequiredHeaders)
NavStatuses == {200, 204, 301, 404, 500}
MonitoringIds == {"", "mon-1"}
Navigations ==
    {NoNavigation("error"), NoNavigation("null")}
        \cup {Response(st, hs, m) : st \in NavStatuses, hs \in HeaderSets,
                                    m \in {Undefined, "", "mon-1", "mon-2"}}

InitSecurity ==
    /\ url = "" /\ page = "" /\ tag = NoTag
    /\ IdleListener
    /\ IdleLocator
    /\ IdleRegex
    /\ IdleMail
    /\ navigation \in Navigations
    /\ verified \in {NotVerified("called", id) : id \in MonitoringIds}

\* the whole method: whatever the try block throws is caught, logged with
\* console.error and not thrown again, so the promise resolves
VerifyStatusAndSecurityHeaders ==
    /\ verified.status = "called"
    /\ verified' = [verified EXCEPT !.status = "resolved",
                                    !.logged = Throws(navigation, verified.monitoringId)]
    /\ UNCHANGED navigation
    /\ UNCHANGED <<classifierVars, listenerVars, locatorVars, regexVars, mailVars>>

NextSecurity == VerifyStatusAndSecurityHeaders

SpecSecurity == InitSecurity /\ [][NextSecurity]_vars

-----------------------------------------------------------------------------
(* Properties of verifyStatusAndSecurityHeaders, checked under SpecSecurity *)

SomeCheckFails ==
    \/ navigation.kind # "response"
    \/ navigation.status # 200
    \/ \E h \in {"x-xss-protection", "strict-transport-security", "x-frame-options",
                 "x-content-type-options", "content-security-policy", "referrer-policy"} :
           h \notin navigation.headers
    \/ navigation.monitoring # verified.monitoringId

\* C21: the call rejects whenever the navigation gives no response, the status
\* is not 200, one of the six security headers is missing or the monitoring-id
\* header differs from monitoringId; it completes normally only when every
\* check passes
C21_RejectsWhenACheckFails ==
    verified.status \in {"resolved", "rejected"} =>
        (verified.status = "rejected" <=> SomeCheckFails)

-----------------------------------------------------------------------------
(* Further properties of the locator-composing methods, checked under       *)
(* SpecLocator                                                              *)

\* the calls chained after the base, the index call left out
RefinementSteps == {k \in 2 .. Len(locator) : locator[k].op \notin {"nth", "last"}}
\* the position in id, classes, role, tag, text of the field a chained call
\* narrows by, 0 if it narrows by none of the request's fields
RankOf(st) ==
    LET R == {k \in DOMAIN RefinementFields :
                  /\ Present(RefinementFields[k])
                  /\ OpArg(st) = ChainedCall(RefinementFields[k])}
    IN  IF R = {} THEN 0 ELSE CHOOSE k \in R : TRUE

\* C22: whatever the base, the refinements applied are chained in the order id,
\* classes, role (with the accessible name and exact flag when given), tag,
\* text; id, classes and tag are locator(selector) calls and role a getByRole
\* call on the locator so far, text is a filter({ hasText }) of it
C22_RefinementOrder ==
    (method \in Methods /\ outcome = "awaiting") =>
        /\ \A k \in RefinementSteps :
               /\ RankOf(locator[k]) # 0
               /\ RefinementFields[RankOf(locator[k])] # baseUsed
               /\ locator[k].op = "getByRole" =>
                      /\ locator[k].name = options.roleName.name
                      /\ locator[k].exact = options.roleName.exact
        /\ \A j, k \in RefinementSteps :
               j < k => RankOf(locator[j]) < RankOf(locator[k])

C22_Witness ==
    /\ method = "hoverElement" /\ outcome = "awaiting"
    /\ baseUsed = "testId"
    /\ Len(locator) = 6
    /\ <<locator[2].arg, locator[3].arg, locator[4].arg, locator[5].arg, locator[6].arg>>
           = <<"#main", ".btn", "link", "button", "Save">>
    /\ locator[4].name = "Save" /\ locator[6].op = "filter"

\* the locator testImage asserts on when testId is non-empty
ImageLocator ==
    <<GetByTestId(options.testId)>>
        \o (IF Present("role") THEN <<GetByRole(options.role, NoRoleName)>> ELSE <<>>)
        \o (IF options.nth.kind = "number" THEN <<Nth(options.nth.n)>>
            ELSE IF options.nth.kind = "last" THEN <<Last>> ELSE <<>>)

\* C24: testImage with an absent or empty testId builds no locator, asserts
\* nothing and completes without error, whatever role and nth are; with a
\* non-empty testId it asserts src on getByTestId(testId) refined by role and
\* then by nth
C24_TestImageNeedsTestId ==
    (method = "testImage" /\ Ran) =>
        IF Present("testId")
        THEN /\ outcome = "awaiting"
             /\ Awaited(method) = "toHaveAttribute"
             /\ locator = ImageLocator
        ELSE /\ outcome = "returned"
             /\ locator = <<>>

C24_Witness ==
    /\ method = "testImage" /\ outcome = "returned"
    /\ options.testId = ""
    /\ options.role = "link" /\ options.nth = NthLast
    /\ locator = <<>>

-----------------------------------------------------------------------------
(* Further properties of the response listener, checked under Spec         *)

\* the step is a response event: the request in flight is answered
Answered == request # NoRequest /\ request' = NoRequest

\* C23: each response event runs the callback of every installed listener
\* once (once in all after a single verifyResponses call, not at all before
\* it), classifying (url of the response, url the page is on at that moment);
\* no other step classifies or checks anything: an earlier response is not
\* picked up by a listener installed later, and a failed check is not run again
C23_OneClassificationPerResponse ==
    [][/\ Answered =>
              /\ Len(checks') = listeners
              /\ listeners = 0 => checks' = <<>>
              /\ \A k \in DOMAIN checks' :
                     /\ checks'[k].url = request.url
                     /\ checks'[k].page = pageUrl
              /\ response'.url = request.url
       /\ ~Answered => (checks' = checks /\ response' = response)]_vars

C23_Witness ==
    /\ listeners = 1 /\ Len(checks) = 1
    /\ request = NoRequest
    /\ response.sentOn = main
    /\ pageUrl = FinancialPage
    /\ checks[1].page = FinancialPage
    /\ checks[1].url = response.url
    /\ checks[1].outcome = "fail"

=============================================================================
